---- MODULE Spec2Model ----
(***************************************************************************)
(* Model of the guessing_utils crate (src/src/lib.rs): the bounded value   *)
(* type Guess, its validating constructor Guess::new, the string parser    *)
(* Guess::parse, the accessor Guess::value, the Eq/Ord implementations and *)
(* the free function gen_random.                                           *)
(*                                                                         *)
(* A string is a sequence of one-character strings; an i32 is an integer   *)
(* in I32_MIN..I32_MAX.  A Result is a record tagged "Ok" or "Err".        *)
(***************************************************************************)
EXTENDS Integers, Sequences, FiniteSets, TLC

VARIABLES guesses, ret, pc, val, text, parsed, calls

vars == <<guesses, ret, pc, val, text, parsed, calls>>

(***************************************************************************)
(* Bounds of the model.                                                    *)
(***************************************************************************)
\* live Guess objects in the lifecycle specification
MaxGuesses == 2
\* live Guess objects in the ordering specification
MaxOperands == 3
\* length of the enumerated input strings
MaxLen == 3
\* integers tried on each side of the valid range
Margin == 3
\* gen_random calls in the random-generation specification
MaxCalls == 3

(***************************************************************************)
(* Program constants.                                                      *)
(***************************************************************************)
\* lower bound of the range check in Guess::new
RangeMin == 0
\* upper bound of the range check in Guess::new
RangeMax == 100
\* exclusive upper end of gen_range(0..101)
GenEnd == 101
\* largest i32
I32_MAX == 2147483647
\* smallest i32
I32_MIN == (-I32_MAX) - 1
\* radix of str::parse::<i32>
Radix == 10

(***************************************************************************)
(* Values.                                                                 *)
(***************************************************************************)
\* struct Guess { val: i32 }
Guess(v) == [val |-> v]

\* err::GuessRangeError, a unit struct
GuessRangeError == [type |-> "GuessRangeError"]

\* core::num::ParseIntError, with its IntErrorKind
ParseIntError(kind) == [type |-> "ParseIntError", kind |-> kind]

Ok(v) == [tag |-> "Ok", v |-> v]

Err(e) == [tag |-> "Err", e |-> e]

\* the conversion of `?` into Box<dyn std::error::Error>: the error value
\* moves to the heap behind a type-erased pointer
BoxDynError(e) == [box |-> e]

\* Display for GuessRangeError
RangeErrorDisplay(e) == "The guess value was out of 0-100 range"

(***************************************************************************)
(* Faulty variants of Guess::new, each a slip the properties must catch.   *)
(***************************************************************************)
\* `val >= 100` for `val > 100`
New_UpperExclusive(v) ==
    IF v < RangeMin \/ v >= RangeMax
    THEN Err(GuessRangeError)
    ELSE Ok(Guess(v))

\* clamping into the range instead of failing
New_Clamp(v) ==
    IF v < RangeMin THEN Ok(Guess(RangeMin))
    ELSE IF v > RangeMax THEN Ok(Guess(RangeMax))
    ELSE Ok(Guess(v))

\* the `val < 0` test left out
New_NoLowerCheck(v) ==
    IF v > RangeMax
    THEN Err(GuessRangeError)
    ELSE Ok(Guess(v))

(***************************************************************************)
(* Guess::new                                                              *)
(***************************************************************************)
New(v) ==
    IF v < RangeMin \/ v > RangeMax
    THEN Err(GuessRangeError)
    ELSE Ok(Guess(v))

\* Guess::value
Value(g) == g.val

(***************************************************************************)
(* str::trim and str::parse::<i32>, as called by Guess::parse              *)
(***************************************************************************)
WhiteSpace == {" ", "\t", "\n", "\r"}

Digits == <<"0", "1", "2", "3", "4", "5", "6", "7", "8", "9">>

IsDigit(c) == \E i \in 1..Radix : Digits[i] = c

\* char::to_digit(10) of a digit character
ToDigit(c) == (CHOOSE i \in 1..Radix : Digits[i] = c) - 1

RECURSIVE TrimStart(_)
TrimStart(s) ==
    IF s # <<>> /\ Head(s) \in WhiteSpace THEN TrimStart(Tail(s)) ELSE s

RECURSIVE TrimEnd(_)
TrimEnd(s) ==
    IF s # <<>> /\ s[Len(s)] \in WhiteSpace
    THEN TrimEnd(SubSeq(s, 1, Len(s) - 1))
    ELSE s

\* faulty variant: trim_start for trim
Trim_StartOnly(s) == TrimStart(s)

Trim(s) == TrimEnd(TrimStart(s))

\* faulty variant: characters that are no digits are skipped
RECURSIVE DigitLoop_SkipInvalid(_, _, _)
DigitLoop_SkipInvalid(digits, result, positive) ==
    IF digits = <<>> THEN Ok(result)
    ELSE IF ~IsDigit(Head(digits))
    THEN DigitLoop_SkipInvalid(Tail(digits), result, positive)
    ELSE LET x == ToDigit(Head(digits)) IN
         IF positive
         THEN IF result > (I32_MAX - x) \div Radix
              THEN Err(ParseIntError("PosOverflow"))
              ELSE DigitLoop_SkipInvalid(Tail(digits), result * Radix + x, positive)
         ELSE IF result < (I32_MIN + x + (Radix - 1)) \div Radix
              THEN Err(ParseIntError("NegOverflow"))
              ELSE DigitLoop_SkipInvalid(Tail(digits), result * Radix - x, positive)

\* faulty variant: saturating arithmetic for checked arithmetic
RECURSIVE DigitLoop_Saturating(_, _, _)
DigitLoop_Saturating(digits, result, positive) ==
    IF digits = <<>> THEN Ok(result)
    ELSE IF ~IsDigit(Head(digits)) THEN Err(ParseIntError("InvalidDigit"))
    ELSE LET x == ToDigit(Head(digits)) IN
         IF positive
         THEN IF result > (I32_MAX - x) \div Radix
              THEN DigitLoop_Saturating(Tail(digits), I32_MAX, positive)
              ELSE DigitLoop_Saturating(Tail(digits), result * Radix + x, positive)
         ELSE IF result < (I32_MIN + x + (Radix - 1)) \div Radix
              THEN DigitLoop_Saturating(Tail(digits), I32_MIN, positive)
              ELSE DigitLoop_Saturating(Tail(digits), result * Radix - x, positive)

\* the checked digit loop: result = result * 10 (+|-) digit, every step checked
\* against the i32 range
RECURSIVE DigitLoop(_, _, _)
DigitLoop(digits, result, positive) ==
    IF digits = <<>> THEN Ok(result)
    ELSE IF ~IsDigit(Head(digits)) THEN Err(ParseIntError("InvalidDigit"))
    ELSE LET x == ToDigit(Head(digits)) IN
         IF positive
         THEN IF result > (I32_MAX - x) \div Radix
              THEN Err(ParseIntError("PosOverflow"))
              ELSE DigitLoop(Tail(digits), result * Radix + x, positive)
         ELSE IF result < (I32_MIN + x + (Radix - 1)) \div Radix
              THEN Err(ParseIntError("NegOverflow"))
              ELSE DigitLoop(Tail(digits), result * Radix - x, positive)

\* <i32 as FromStr>::from_str
ParseI32(src) ==
    IF src = <<>> THEN Err(ParseIntError("Empty"))
    ELSE IF Len(src) = 1 /\ Head(src) \in {"+", "-"}
         THEN Err(ParseIntError("InvalidDigit"))
    ELSE IF Head(src) = "+" THEN DigitLoop(Tail(src), 0, TRUE)
    ELSE IF Head(src) = "-" THEN DigitLoop(Tail(src), 0, FALSE)
    ELSE DigitLoop(src, 0, TRUE)

\* let parsed: i32 = match val.trim().parse() { ... }
LexStep(s) == ParseI32(Trim(s))

\* faulty variant: the range error reported as a parse error
RangeStep_AsParseError(n) ==
    LET r == New(n) IN
    IF r.tag = "Ok" THEN Ok(r.v) ELSE Err(BoxDynError(ParseIntError("InvalidDigit")))

\* match Guess::new(parsed) { Ok(val) => Ok(val), Err(err) => Err(err)? }
RangeStep(n) ==
    LET r == New(n) IN
    IF r.tag = "Ok" THEN Ok(r.v) ELSE Err(BoxDynError(r.e))

(***************************************************************************)
(* Guess::parse                                                            *)
(***************************************************************************)
Parse(s) ==
    LET p == LexStep(s) IN
    IF p.tag = "Err" THEN Err(BoxDynError(p.e)) ELSE RangeStep(p.v)

(***************************************************************************)
(* Ord, PartialOrd, PartialEq                                              *)
(***************************************************************************)
\* i32::cmp
I32Cmp(x, y) == IF x < y THEN "Less" ELSE IF x = y THEN "Equal" ELSE "Greater"

\* faulty variant: other.value().cmp(self.value())
Cmp_Reversed(a, b) == I32Cmp(Value(b), Value(a))

\* impl Ord for Guess
Cmp(a, b) == I32Cmp(Value(a), Value(b))

\* impl PartialOrd for Guess
PartialCmp(a, b) == [tag |-> "Some", v |-> Cmp(a, b)]

\* faulty variant: self.value() == self.value()
Eq_SelfCompare(a, b) == Value(a) = Value(a)

\* impl PartialEq for Guess
Eq(a, b) == Value(a) = Value(b)

(***************************************************************************)
(* gen_random                                                              *)
(***************************************************************************)
\* faulty variant: the inclusive range lo..=hi
GenRange_Inclusive(lo, hi) == lo..hi

\* the values rand::thread_rng().gen_range(lo..hi) can return
GenRange(lo, hi) == lo..(hi - 1)

\* Result::unwrap
Unwrap(r) == IF r.tag = "Ok" THEN r.v ELSE [panic |-> r.e]

\* gen_random, for a drawn number n
GenRandom(n) == Unwrap(New(n))

(***************************************************************************)
(* Inputs.                                                                 *)
(***************************************************************************)
Alphabet == {" ", "-", "+", "0", "1", "9", "v", "."}

\* every string over Alphabet of length at most n
Strings(n) == UNION {[1..k -> Alphabet] : k \in 0..n}

\* the strings of the documentation and the tests, and the i32 boundaries
NamedStrings ==
    { <<"1","6">>, <<"5","7">>, <<"v","a","l">>, <<"1","2",".","5">>,
      <<" ","1","6","\n">>, <<"\t","1","0","0"," ">>, <<" "," ","1","0","1">>,
      <<"1"," ","6">>, <<"0","0","0","1","6">>, <<"-","0","0","0">>,
      <<"+","0","1","0","0">>, <<"0","1","0","1">>, <<" "," "," "," ">>,
      <<"2","1","4","7","4","8","3","6","4","7">>,
      <<"2","1","4","7","4","8","3","6","4","8">>,
      <<"+","2","1","4","7","4","8","3","6","4","8">>,
      <<"-","2","1","4","7","4","8","3","6","4","8">>,
      <<"-","2","1","4","7","4","8","3","6","4","9">>,
      <<"9","9","9","9","9","9","9","9","9","9","9">>,
      <<" ","9","9","9","9","9","9","9","9","9","9","9","\n">>,
      <<"0","0","0","0","0","0","0","0","0","0","0","0","5","0">>,
      <<"2","1","4","7","4","8","3","6","4","8","v">> }

ParseInputs == Strings(MaxLen) \cup NamedStrings

NewInputs == ((RangeMin - Margin)..(RangeMax + Margin)) \cup {I32_MIN, I32_MAX}

\* the inputs of the lifecycle specification
LifeInts == {-1, 0, 100, 101}

LifeStrings ==
    { <<"1","6">>, <<"v","a","l">>, <<" ","1","0","0"," ">>, <<"1","0","1">> }

\* the inputs of the ordering specification
OrdInts == {-1, 0, 13, 14, 50, 100, 101}

NoRet == [op |-> "none", args |-> <<>>, out |-> <<>>]

NoParsed == [tag |-> "None"]

(***************************************************************************)
(* Operations on the live Guess objects.  guesses is the sequence of the   *)
(* Guess objects constructed so far, ret the last call and what it         *)
(* returned.                                                               *)
(***************************************************************************)
\* Guess::new(v), the caller keeping the Guess of an Ok
CallNew(v, cap) ==
    LET r == New(v) IN
    /\ pc = "idle"
    /\ r.tag = "Ok" => Len(guesses) < cap
    /\ ret' = [op |-> "new", args |-> <<v>>, out |-> r]
    /\ guesses' = IF r.tag = "Ok" THEN Append(guesses, r.v) ELSE guesses
    /\ UNCHANGED <<pc, val, text, parsed, calls>>

\* Guess::parse(s), the caller keeping the Guess of an Ok
CallParse(s, cap) ==
    LET r == Parse(s) IN
    /\ pc = "idle"
    /\ r.tag = "Ok" => Len(guesses) < cap
    /\ ret' = [op |-> "parse", args |-> <<s>>, out |-> r]
    /\ guesses' = IF r.tag = "Ok" THEN Append(guesses, r.v) ELSE guesses
    /\ UNCHANGED <<pc, val, text, parsed, calls>>

\* gen_random(), the caller keeping the Guess; a failed unwrap panics
CallGenRandom(cap) ==
    /\ pc = "idle"
    /\ Len(guesses) < cap
    /\ \E n \in GenRange(0, GenEnd) :
         LET g == GenRandom(n) IN
         /\ ret' = [op |-> "gen_random", args |-> <<>>, out |-> g]
         /\ IF "panic" \in DOMAIN g
            THEN pc' = "panicked" /\ guesses' = guesses
            ELSE pc' = pc /\ guesses' = Append(guesses, g)
    /\ UNCHANGED <<val, text, parsed, calls>>

\* guesses[i].value()
CallValue(i) ==
    /\ pc = "idle"
    /\ ret' = [op |-> "value", args |-> <<i>>, out |-> Value(guesses[i])]
    /\ UNCHANGED <<guesses, pc, val, text, parsed, calls>>

\* guesses[i] == guesses[j]
CallEq(i, j) ==
    /\ pc = "idle"
    /\ ret' = [op |-> "eq", args |-> <<i, j>>, out |-> Eq(guesses[i], guesses[j])]
    /\ UNCHANGED <<guesses, pc, val, text, parsed, calls>>

\* guesses[i].cmp(&guesses[j])
CallCmp(i, j) ==
    /\ pc = "idle"
    /\ ret' = [op |-> "cmp", args |-> <<i, j>>, out |-> Cmp(guesses[i], guesses[j])]
    /\ UNCHANGED <<guesses, pc, val, text, parsed, calls>>

\* guesses[i].partial_cmp(&guesses[j])
CallPartialCmp(i, j) ==
    /\ pc = "idle"
    /\ ret' = [op |-> "partial_cmp", args |-> <<i, j>>,
               out |-> PartialCmp(guesses[i], guesses[j])]
    /\ UNCHANGED <<guesses, pc, val, text, parsed, calls>>

(***************************************************************************)
(* The lifecycle specification: every operation of the crate, in any order.*)
(***************************************************************************)
Init ==
    /\ guesses = <<>>
    /\ ret = NoRet
    /\ pc = "idle"
    /\ val = 0
    /\ text = <<>>
    /\ parsed = NoParsed
    /\ calls = 0

DoNew == \E v \in LifeInts : CallNew(v, MaxGuesses)

DoParse == \E s \in LifeStrings : CallParse(s, MaxGuesses)

DoGenRandom == CallGenRandom(MaxGuesses)

DoValue == \E i \in DOMAIN guesses : CallValue(i)

DoEq == \E i, j \in DOMAIN guesses : CallEq(i, j)

DoCmp == \E i, j \in DOMAIN guesses : CallCmp(i, j)

DoPartialCmp == \E i, j \in DOMAIN guesses : CallPartialCmp(i, j)

Next == DoNew \/ DoParse \/ DoGenRandom \/ DoValue \/ DoEq \/ DoCmp \/ DoPartialCmp

Spec == Init /\ [][Next]_vars

(***************************************************************************)
(* Guess::new on one input.                                                *)
(***************************************************************************)
InitNew ==
    /\ guesses = <<>>
    /\ ret = NoRet
    /\ pc = "idle"
    /\ val \in NewInputs
    /\ text = <<>>
    /\ parsed = NoParsed
    /\ calls = 0

NewOnce ==
    /\ ret = NoRet
    /\ CallNew(val, 1)

NextNew == NewOnce

SpecNew == InitNew /\ [][NextNew]_vars

(***************************************************************************)
(* Guess::parse on one input, statement by statement.                      *)
(***************************************************************************)
InitParse ==
    /\ guesses = <<>>
    /\ ret = NoRet
    /\ pc = "lex"
    /\ val = 0
    /\ text \in ParseInputs
    /\ parsed = NoParsed
    /\ calls = 0

\* lines 82-85: trim, parse as i32, return the boxed error of a failure
ParseLex ==
    /\ pc = "lex"
    /\ parsed' = LexStep(text)
    /\ IF parsed'.tag = "Err"
       THEN /\ ret' = [op |-> "parse", args |-> <<text>>,
                       out |-> Err(BoxDynError(parsed'.e))]
            /\ pc' = "done"
       ELSE /\ ret' = ret
            /\ pc' = "range"
    /\ UNCHANGED <<guesses, val, text, calls>>

\* lines 87-90: Guess::new on the parsed number, its error boxed
ParseRange ==
    /\ pc = "range"
    /\ LET r == RangeStep(parsed.v) IN
       /\ ret' = [op |-> "parse", args |-> <<text>>, out |-> r]
       /\ guesses' = IF r.tag = "Ok" THEN Append(guesses, r.v) ELSE guesses
    /\ pc' = "done"
    /\ UNCHANGED <<val, text, parsed, calls>>

NextParse == ParseLex \/ ParseRange

SpecParse == InitParse /\ [][NextParse]_vars

(***************************************************************************)
(* The ordering specification: Guess objects and their comparisons.        *)
(***************************************************************************)
OrdNew == \E v \in OrdInts : CallNew(v, MaxOperands)

OrdValue == \E i \in DOMAIN guesses : CallValue(i)

OrdEq == \E i, j \in DOMAIN guesses : CallEq(i, j)

OrdCmp == \E i, j \in DOMAIN guesses : CallCmp(i, j)

OrdPartialCmp == \E i, j \in DOMAIN guesses : CallPartialCmp(i, j)

NextOrd == OrdNew \/ OrdValue \/ OrdEq \/ OrdCmp \/ OrdPartialCmp

SpecOrd == Init /\ [][NextOrd]_vars

(***************************************************************************)
(* The random-generation specification: repeated gen_random calls, each    *)
(* caller dropping the Guess of the call before.                           *)
(***************************************************************************)
RandomCall ==
    /\ pc = "idle"
    /\ calls < MaxCalls
    /\ calls' = calls + 1
    /\ \E n \in GenRange(0, GenEnd) :
         LET g == GenRandom(n) IN
         /\ ret' = [op |-> "gen_random", args |-> <<>>, out |-> g]
         /\ IF "panic" \in DOMAIN g
            THEN pc' = "panicked" /\ guesses' = <<>>
            ELSE pc' = pc /\ guesses' = <<g>>
    /\ UNCHANGED <<val, text, parsed>>

NextRandom == RandomCall

SpecRandom == Init /\ [][NextRandom]_vars

(***************************************************************************)
(* Vocabulary of the properties: integer literals read off the text        *)
(* itself, without the parser.                                             *)
(***************************************************************************)
Blank == {" ", "\t", "\n", "\r"}

DecimalDigit == {"0", "1", "2", "3", "4", "5", "6", "7", "8", "9"}

SetMin(S) == CHOOSE x \in S : \A y \in S : x <= y

SetMax(S) == CHOOSE x \in S : \A y \in S : x >= y

\* s without its leading and trailing blanks
Trimmed(s) ==
    LET ix == {i \in 1..Len(s) : s[i] \notin Blank} IN
    IF ix = {} THEN <<>> ELSE SubSeq(s, SetMin(ix), SetMax(ix))

IsNegative(t) == t # <<>> /\ t[1] = "-"

\* t without its sign
LitBody(t) == IF t # <<>> /\ t[1] \in {"+", "-"} THEN Tail(t) ELSE t

\* t is an optional sign and one or more decimal digits
IsIntLiteral(t) ==
    /\ LitBody(t) # <<>>
    /\ \A i \in 1..Len(LitBody(t)) : LitBody(t)[i] \in DecimalDigit

DigitValue(c) ==
    CASE c = "0" -> 0 [] c = "1" -> 1 [] c = "2" -> 2 [] c = "3" -> 3
      [] c = "4" -> 4 [] c = "5" -> 5 [] c = "6" -> 6 [] c = "7" -> 7
      [] c = "8" -> 8 [] c = "9" -> 9

\* the digits of a literal from its first nonzero digit on
Significant(t) ==
    LET b == LitBody(t)
        nz == {i \in 1..Len(b) : b[i] # "0"}
    IN IF nz = {} THEN <<>> ELSE SubSeq(b, SetMin(nz), Len(b))

\* the number written by at most three significant digits
SmallMagnitude(d) ==
    CASE Len(d) = 0 -> 0
      [] Len(d) = 1 -> DigitValue(d[1])
      [] Len(d) = 2 -> 10 * DigitValue(d[1]) + DigitValue(d[2])
      [] Len(d) = 3 -> 100 * DigitValue(d[1]) + 10 * DigitValue(d[2]) + DigitValue(d[3])

\* the literal t denotes an integer n with 0 <= n <= 100
LitInRange(t) ==
    LET d == Significant(t) IN
    /\ Len(d) <= 3
    /\ SmallMagnitude(d) <= 100
    /\ IsNegative(t) => SmallMagnitude(d) = 0

\* the integer an in-range literal denotes
LitValue(t) == SmallMagnitude(Significant(t))

\* digit strings of equal length: a denotes a larger number than b
DigitsGreater(a, b) ==
    \E i \in 1..Len(a) :
        /\ DigitValue(a[i]) > DigitValue(b[i])
        /\ \A j \in 1..(i - 1) : a[j] = b[j]

\* the literal t denotes an integer outside -2147483648..2147483647
LitOverflows(t) ==
    LET d == Significant(t)
        limit == IF IsNegative(t)
                 THEN <<"2","1","4","7","4","8","3","6","4","8">>
                 ELSE <<"2","1","4","7","4","8","3","6","4","7">>
    IN \/ Len(d) > Len(limit)
       \/ Len(d) = Len(limit) /\ DigitsGreater(d, limit)

Returned(op) == ret.op = op

IsLexicalError(r) ==
    /\ r.tag = "Err"
    /\ r.e.box.type = "ParseIntError"

IsRangeError(r) ==
    /\ r.tag = "Err"
    /\ r.e.box = [type |-> "GuessRangeError"]

(***************************************************************************)
(* Properties.                                                             *)
(***************************************************************************)
\* C1: for every integer v with 0 <= v <= 100, Guess::new(v) returns Ok and
\* the value() of the Guess it returns is v.
C1_NewAcceptsRange ==
    (Returned("new") /\ 0 <= val /\ val <= 100) =>
        /\ ret.out.tag = "Ok"
        /\ Value(ret.out.v) = val
        /\ guesses = <<ret.out.v>>

C1_Witness ==
    /\ Returned("new")
    /\ val = 100
    /\ ret.out.tag = "Ok"
    /\ Value(ret.out.v) = 100

\* C2: for every integer v with v < 0 or v > 100, Guess::new(v) returns
\* Err(GuessRangeError) and no Guess comes into existence, neither a default
\* nor a clamped one.
C2_NewRejectsOutside ==
    (Returned("new") /\ (val < 0 \/ val > 100)) =>
        /\ ret.out.tag = "Err"
        /\ ret.out.e = [type |-> "GuessRangeError"]
        /\ guesses = <<>>

C2_Witness ==
    /\ Returned("new")
    /\ val = 101
    /\ ret.out.tag = "Err"

\* C3: every Guess that exists holds a value in 0..100, and no operation
\* (new, parse, gen_random, value, ==, cmp, partial_cmp) changes the value of
\* a Guess that exists.
C3_RangeAndImmutable ==
    /\ [](\A i \in DOMAIN guesses : 0 <= guesses[i].val /\ guesses[i].val <= 100)
    /\ [][\A i \in DOMAIN guesses :
             i \in DOMAIN guesses' /\ guesses'[i] = guesses[i]]_vars

C3_Witness ==
    /\ Len(guesses) = 2
    /\ guesses[1].val = 0
    /\ guesses[2].val = 100
    /\ Returned("cmp")
    /\ ret.args = <<1, 2>>

\* C4: when the trimmed text is an integer literal n, Guess::parse returns Ok
\* if and only if 0 <= n <= 100, and then the value() of the Guess is n.
C4_ParseLiteral ==
    (pc = "done" /\ IsIntLiteral(Trimmed(text))) =>
        /\ ret.out.tag = "Ok" <=> LitInRange(Trimmed(text))
        /\ ret.out.tag = "Ok" =>
              /\ Value(ret.out.v) = LitValue(Trimmed(text))
              /\ guesses = <<ret.out.v>>

C4_Witness ==
    /\ pc = "done"
    /\ text = <<" ", "1", "6", "\n">>
    /\ ret.out.tag = "Ok"
    /\ Value(ret.out.v) = 16

\* C5: when the trimmed text is not an integer literal, Guess::parse returns
\* an Err holding a ParseIntError, which is not the GuessRangeError.
C5_ParseNonLiteral ==
    (pc = "done" /\ ~IsIntLiteral(Trimmed(text))) =>
        /\ IsLexicalError(ret.out)
        /\ ~IsRangeError(ret.out)
        /\ guesses = <<>>

C5_Witness ==
    /\ pc = "done"
    /\ text = <<"1", "2", ".", "5">>
    /\ IsLexicalError(ret.out)

\* C6: every gen_random call returns a Guess with a value in 0..100; the
\* unwrap inside never panics.
C6_GenRandomInRange ==
    /\ pc # "panicked"
    /\ Returned("gen_random") =>
          /\ DOMAIN ret.out = {"val"}
          /\ 0 <= ret.out.val /\ ret.out.val <= 100
          /\ guesses = <<ret.out>>

C6_Witness ==
    /\ Returned("gen_random")
    /\ calls >= 2
    /\ ret.out = [val |-> 100]

\* C7: cmp on two Guesses is the integer comparison of their values, one of
\* Less, Equal, Greater (partial_cmp never None); Greater one way is Less the
\* other way, and the order is transitive.
C7_CmpTotalOrder ==
    /\ \A i, j \in DOMAIN guesses :
          LET a == guesses[i]
              b == guesses[j]
          IN /\ Cmp(a, b) \in {"Less", "Equal", "Greater"}
             /\ Cmp(a, b) = "Less" <=> a.val < b.val
             /\ Cmp(a, b) = "Equal" <=> a.val = b.val
             /\ Cmp(a, b) = "Greater" <=> a.val > b.val
             /\ Cmp(a, b) = "Greater" <=> Cmp(b, a) = "Less"
             /\ PartialCmp(a, b) = [tag |-> "Some", v |-> Cmp(a, b)]
    /\ \A i, j, k \in DOMAIN guesses :
          LET a == guesses[i]
              b == guesses[j]
              c == guesses[k]
          IN /\ (Cmp(a, b) = "Less" /\ Cmp(b, c) = "Less") => Cmp(a, c) = "Less"
             /\ (Cmp(a, b) # "Greater" /\ Cmp(b, c) # "Greater") => Cmp(a, c) # "Greater"
    /\ Returned("cmp") =>
          LET x == guesses[ret.args[1]].val
              y == guesses[ret.args[2]].val
          IN ret.out = IF x < y THEN "Less" ELSE IF x > y THEN "Greater" ELSE "Equal"

C7_Witness ==
    /\ Returned("cmp")
    /\ Len(guesses) = 3
    /\ guesses[ret.args[1]].val = 50
    /\ guesses[ret.args[2]].val = 13
    /\ ret.out = "Greater"

\* C8: a == b exactly when the values are equal; == is reflexive, symmetric
\* and transitive, and cmp yields Equal exactly when == holds.
C8_EqEquivalence ==
    /\ \A i, j \in DOMAIN guesses :
          LET a == guesses[i]
              b == guesses[j]
          IN /\ Eq(a, b) <=> a.val = b.val
             /\ Eq(a, a)
             /\ Eq(a, b) <=> Eq(b, a)
             /\ Eq(a, b) <=> Cmp(a, b) = "Equal"
    /\ \A i, j, k \in DOMAIN guesses :
          (Eq(guesses[i], guesses[j]) /\ Eq(guesses[j], guesses[k]))
              => Eq(guesses[i], guesses[k])
    /\ Returned("eq") =>
          ret.out = (guesses[ret.args[1]].val = guesses[ret.args[2]].val)

C8_Witness ==
    /\ Returned("eq")
    /\ Len(guesses) = 3
    /\ guesses[1].val = 13
    /\ guesses[2].val = 13
    /\ guesses[3].val = 14
    /\ ret.args = <<2, 3>>
    /\ ret.out = FALSE

\* C9: when the trimmed text parses as an i32 n outside 0..100, Guess::parse
\* returns the GuessRangeError of Guess::new(n), boxed and otherwise
\* unchanged; Guess::new runs only after the i32 parse has succeeded.
C9_RangeErrorPropagated ==
    /\ (pc = "done" /\ parsed.tag = "Ok" /\ (parsed.v < 0 \/ parsed.v > 100)) =>
          /\ IsRangeError(ret.out)
          /\ ret.out.e.box = New(parsed.v).e
          /\ ~IsLexicalError(ret.out)
          /\ guesses = <<>>
    /\ pc = "lex" => (parsed = NoParsed /\ ret = NoRet)
    /\ pc = "range" => (parsed.tag = "Ok" /\ ret = NoRet)
    /\ (pc = "done" /\ parsed.tag = "Err") => ~IsRangeError(ret.out)

C9_Witness ==
    /\ pc = "done"
    /\ text = <<" ", " ", "1", "0", "1">>
    /\ parsed = [tag |-> "Ok", v |-> 101]
    /\ IsRangeError(ret.out)

\* C10: when the trimmed text is an integer literal that does not fit an
\* i32, or is empty, Guess::parse returns the ParseIntError kind of error,
\* not the GuessRangeError.
C10_OverflowIsLexical ==
    (/\ pc = "done"
     /\ \/ Trimmed(text) = <<>>
        \/ IsIntLiteral(Trimmed(text)) /\ LitOverflows(Trimmed(text))) =>
        /\ IsLexicalError(ret.out)
        /\ ~IsRangeError(ret.out)

C10_Witness ==
    /\ pc = "done"
    /\ text = <<"2","1","4","7","4","8","3","6","4","8">>
    /\ IsLexicalError(ret.out)
    /\ ret.out.e.box.kind = "PosOverflow"

====
